---- MODULE Spec2Model ----
(***************************************************************************)
(* Model of the library code vendored under pylib_ext:                     *)
(*   - sympy/assumptions/handlers/sets.py  (ask handlers for Mul/Add/Pow)   *)
(*   - sympy/physics/quantum/qapply.py     (qapply, qapply_Mul)             *)
(*   - sympy/integrals/trigonometry.py     (trigintegrate, _pat_sincos,     *)
(*     _sin_pow_integrate, _cos_pow_integrate)                              *)
(*   - numpy/doc/subclassing.py            (the ndarray subclasses C,       *)
(*     InfoArray and RealisticInfoArray of the document and the three       *)
(*     routes by which their instances are created)                         *)
(* Every sympy function is a pure function of its arguments and of the     *)
(* answers of the library it calls (ask, _apply_operator, doit, match).    *)
(* Those answers are inputs: they are drawn with \E from bounded sets and   *)
(* kept in the record of the call.  `call` is the last call made together  *)
(* with its result; `cache` is the memo table that @cacheit keeps for      *)
(* _pat_sincos; `nextId` numbers the pattern objects _pat_sincos creates;  *)
(* `heap` is the sequence of the arrays created so far in a numpy session, *)
(* an array being referred to by its index in it.                          *)
(***************************************************************************)
EXTENDS Integers, Sequences, FiniteSets, TLC

VARIABLES call, cache, nextId, heap

vars == <<call, cache, nextId, heap>>

(***************************************************************************)
(* Bounds of the model.                                                    *)
(***************************************************************************)
\* Largest number of args of a Mul / Add handed to a handler.
MaxArgs == 3

(***************************************************************************)
(* Python values.  ask() answers True, False or None; a handler that falls *)
(* off its end returns None.                                               *)
(***************************************************************************)
Tri == {"True", "False", "None"}

PyBool(b) == IF b THEN "True" ELSE "False"

\* Python truthiness of an ask() answer: only True is truthy.
Truthy(v) == v = "True"

\* result ^ True on a Python bool.
XorTrue(b) == ~b

\* Python's q & 1 on a positive int.
BitAnd1(q) == q % 2

\* Python's ~v on an int.
BitNot(v) == -v - 1

\* Non-empty sequences over S of length lo..hi.
SeqsOf(S, lo, hi) == UNION {[1..n -> S] : n \in lo..hi}

(***************************************************************************)
(* A for/else loop over expr.args.  step(arg, acc) is one pass of the loop *)
(* body: it answers [op |-> "return", val |-> v] (a return inside the      *)
(* loop), [op |-> "break"] or [op |-> "next", acc |-> a].  A break leaves  *)
(* the function by its end (None); the else clause returns fin(acc).       *)
(***************************************************************************)
RECURSIVE ForElse(_, _, _, _, _)
ForElse(step(_, _), fin(_), args, i, acc) ==
  IF i > Len(args) THEN fin(acc)
  ELSE LET r == step(args[i], acc) IN
       CASE r.op = "return" -> r.val
         [] r.op = "break"  -> "None"
         [] OTHER           -> ForElse(step, fin, args, i + 1, r.acc)

\* The non-numeric expressions with args over F, and a few numeric ones
\* (expr.is_number decides before the args are looked at).
NonNumeric(F) == {[is_number |-> FALSE, args |-> a] : a \in SeqsOf(F, 2, MaxArgs)}
Numeric(F) == {[is_number |-> TRUE, args |-> a] : a \in SeqsOf(F, 2, 2)}

\* A call of fn is waiting to run.
Pending(fn) == call.fn = fn /\ call.pc = "pending"

Return(v) == [op |-> "return", val |-> v]
Break == [op |-> "break"]
Continue(a) == [op |-> "next", acc |-> a]

(***************************************************************************)
(* AskIntegerHandler.Mul                                                   *)
(***************************************************************************)
\* The factors of a product as Q.integer sees them: what ask(Q.integer),
\* arg.is_Rational, arg.q and ask(Q.irrational) answer for the factor.
\* A Rational number that is not an Integer is never an integer
\* (AskIntegerHandler.Rational) and never irrational.
IntFactors ==
  {[kind |-> "Integer",    integer |-> "True",  is_Rational |-> TRUE,  q |-> 1, irrational |-> "False"],
   [kind |-> "Half",       integer |-> "False", is_Rational |-> TRUE,  q |-> 2, irrational |-> "False"],
   [kind |-> "Third",      integer |-> "False", is_Rational |-> TRUE,  q |-> 3, irrational |-> "False"],
   [kind |-> "Quarter",    integer |-> "False", is_Rational |-> TRUE,  q |-> 4, irrational |-> "False"],
   [kind |-> "integer",    integer |-> "True",  is_Rational |-> FALSE, q |-> 0, irrational |-> "False"],
   [kind |-> "irrational", integer |-> "False", is_Rational |-> FALSE, q |-> 0, irrational |-> "True"],
   [kind |-> "rational",   integer |-> "None",  is_Rational |-> FALSE, q |-> 0, irrational |-> "False"],
   [kind |-> "unknown",    integer |-> "None",  is_Rational |-> FALSE, q |-> 0, irrational |-> "None"]}

\* One pass of the loop of AskIntegerHandler.Mul; acc is _output.
IntegerMulStep_NoSecond(even2, arg, acc) ==
  IF ~Truthy(arg.integer)
  THEN IF arg.is_Rational
       THEN IF arg.q = 2 THEN Return(even2)
            ELSE IF BitNot(BitAnd1(arg.q)) # 0 THEN Return("None")
            ELSE Continue(acc)
       ELSE IF Truthy(arg.irrational)
            THEN Continue(FALSE)
            ELSE Return("None")
  ELSE Continue(acc)

IntegerMulStep(even2, arg, acc) ==
  IF ~Truthy(arg.integer)
  THEN IF arg.is_Rational
       THEN IF arg.q = 2 THEN Return(even2)
            ELSE IF BitNot(BitAnd1(arg.q)) # 0 THEN Return("None")
            ELSE Continue(acc)
       ELSE IF Truthy(arg.irrational)
            THEN IF acc THEN Continue(FALSE) ELSE Return("None")
            ELSE Return("None")
  ELSE Continue(acc)

\* env.number is what AskIntegerHandler._number answers for a numeric expr,
\* env.even2 what ask(Q.even(2*expr), assumptions) answers.
AskIntegerHandler_Mul(expr, env) ==
  IF expr.is_number THEN env.number
  ELSE LET step(arg, acc) == IntegerMulStep(env.even2, arg, acc)
           fin(acc) == PyBool(acc)
       IN ForElse(step, fin, expr.args, 1, TRUE)

IntegerMulInputs ==
  {[fn |-> "AskIntegerHandler.Mul", expr |-> e,
    env |-> [number |-> n, even2 |-> e2], pc |-> "pending", result |-> "None"] :
     e \in NonNumeric(IntFactors), n \in {"False"}, e2 \in Tri}
  \cup
  {[fn |-> "AskIntegerHandler.Mul", expr |-> e,
    env |-> [number |-> n, even2 |-> e2], pc |-> "pending", result |-> "None"] :
     e \in Numeric(IntFactors), n \in {"True", "False"}, e2 \in {"None"}}

CallIntegerMul ==
  /\ Pending("AskIntegerHandler.Mul")
  /\ call' = [call EXCEPT !.pc = "done", !.result = AskIntegerHandler_Mul(call.expr, call.env)]
  /\ UNCHANGED <<cache, nextId, heap>>

(***************************************************************************)
(* AskRealHandler.Mul and AskImaginaryHandler.Add                          *)
(***************************************************************************)
\* A factor or term as Q.real and Q.imaginary see it.  Nothing is known
\* both real and imaginary.
RealFactors ==
  {[real |-> r, imaginary |-> i] : r \in Tri, i \in Tri}
    \ {[real |-> "True", imaginary |-> "True"]}

\* One pass of the loop of AskRealHandler.Mul; acc is result.
RealMulStep_NoFlip(arg, acc) ==
  IF Truthy(arg.real) THEN Continue(acc)
  ELSE IF Truthy(arg.imaginary) THEN Continue(acc)
  ELSE Break

RealMulStep(arg, acc) ==
  IF Truthy(arg.real) THEN Continue(acc)
  ELSE IF Truthy(arg.imaginary) THEN Continue(XorTrue(acc))
  ELSE Break

\* env.number is what AskRealHandler._number answers (it may be None).
AskRealHandler_Mul(expr, env) ==
  IF expr.is_number THEN env.number
  ELSE LET fin(acc) == PyBool(acc)
       IN ForElse(RealMulStep, fin, expr.args, 1, TRUE)

RealMulInputs ==
  {[fn |-> "AskRealHandler.Mul", expr |-> e, env |-> [number |-> n], pc |-> "pending", result |-> "None"] :
     e \in NonNumeric(RealFactors), n \in {"None"}}
  \cup
  {[fn |-> "AskRealHandler.Mul", expr |-> e, env |-> [number |-> n], pc |-> "pending", result |-> "None"] :
     e \in Numeric(RealFactors), n \in Tri}

CallRealMul ==
  /\ Pending("AskRealHandler.Mul")
  /\ call' = [call EXCEPT !.pc = "done", !.result = AskRealHandler_Mul(call.expr, call.env)]
  /\ UNCHANGED <<cache, nextId, heap>>

\* One pass of the loop of AskImaginaryHandler.Add; acc is reals.
ImaginaryAddStep(arg, acc) ==
  IF Truthy(arg.imaginary) THEN Continue(acc)
  ELSE IF Truthy(arg.real) THEN Continue(acc + 1)
  ELSE Break

\* The else clause of the loop of AskImaginaryHandler.Add.
ImaginaryAddElse_AnyReal(nargs, reals) ==
  IF reals = 0 THEN "True"
  ELSE "False"

ImaginaryAddElse(nargs, reals) ==
  IF reals = 0 THEN "True"
  ELSE IF reals = 1 \/ nargs = reals THEN "False"
  ELSE "None"

\* env.number is what AskImaginaryHandler._number answers (a bool).
AskImaginaryHandler_Add(expr, env) ==
  IF expr.is_number THEN env.number
  ELSE LET fin(acc) == ImaginaryAddElse(Len(expr.args), acc)
       IN ForElse(ImaginaryAddStep, fin, expr.args, 1, 0)

ImaginaryAddInputs ==
  {[fn |-> "AskImaginaryHandler.Add", expr |-> e, env |-> [number |-> n], pc |-> "pending", result |-> "None"] :
     e \in NonNumeric(RealFactors), n \in {"None"}}
  \cup
  {[fn |-> "AskImaginaryHandler.Add", expr |-> e, env |-> [number |-> n], pc |-> "pending", result |-> "None"] :
     e \in Numeric(RealFactors), n \in {"True", "False"}}

CallImaginaryAdd ==
  /\ Pending("AskImaginaryHandler.Add")
  /\ call' = [call EXCEPT !.pc = "done", !.result = AskImaginaryHandler_Add(call.expr, call.env)]
  /\ UNCHANGED <<cache, nextId, heap>>

(***************************************************************************)
(* AskRealHandler.Pow                                                      *)
(***************************************************************************)
\* The base of a power as ask() sees it: the answers to Q.imaginary, Q.real,
\* Q.positive and Q.negative, and what is known of its sign (nonnegative is
\* True for a base known positive, known zero, or known to be >= 0).
PowBases ==
  {[kind |-> "positive",    imaginary |-> "False", real |-> "True",  positive |-> "True",  negative |-> "False", nonnegative |-> "True",  zero |-> "False"],
   [kind |-> "zero",        imaginary |-> "False", real |-> "True",  positive |-> "False", negative |-> "False", nonnegative |-> "True",  zero |-> "True"],
   [kind |-> "nonnegative", imaginary |-> "False", real |-> "True",  positive |-> "None",  negative |-> "False", nonnegative |-> "True",  zero |-> "None"],
   [kind |-> "negative",    imaginary |-> "False", real |-> "True",  positive |-> "False", negative |-> "True",  nonnegative |-> "False", zero |-> "False"],
   [kind |-> "real",        imaginary |-> "False", real |-> "True",  positive |-> "None",  negative |-> "None",  nonnegative |-> "None",  zero |-> "None"],
   [kind |-> "imaginary",   imaginary |-> "True",  real |-> "False", positive |-> "False", negative |-> "False", nonnegative |-> "False", zero |-> "False"],
   [kind |-> "unknown",     imaginary |-> "None",  real |-> "None",  positive |-> "None",  negative |-> "None",  nonnegative |-> "None",  zero |-> "None"]}

\* The exponent: a Rational number p/q in lowest terms (q = 1 for an
\* Integer), or a symbol with the answers to Q.real, Q.integer, Q.odd, Q.even.
PowExps ==
  {[kind |-> "2",     is_Rational |-> TRUE,  p |-> 2, q |-> 1, real |-> "True", integer |-> "True",  odd |-> "False", even |-> "True"],
   [kind |-> "3",     is_Rational |-> TRUE,  p |-> 3, q |-> 1, real |-> "True", integer |-> "True",  odd |-> "True",  even |-> "False"],
   [kind |-> "1/2",   is_Rational |-> TRUE,  p |-> 1, q |-> 2, real |-> "True", integer |-> "False", odd |-> "False", even |-> "False"],
   [kind |-> "1/3",   is_Rational |-> TRUE,  p |-> 1, q |-> 3, real |-> "True", integer |-> "False", odd |-> "False", even |-> "False"],
   [kind |-> "3/4",   is_Rational |-> TRUE,  p |-> 3, q |-> 4, real |-> "True", integer |-> "False", odd |-> "False", even |-> "False"],
   [kind |-> "2/5",   is_Rational |-> TRUE,  p |-> 2, q |-> 5, real |-> "True", integer |-> "False", odd |-> "False", even |-> "False"],
   [kind |-> "integer", is_Rational |-> FALSE, p |-> 0, q |-> 0, real |-> "True", integer |-> "True", odd |-> "None", even |-> "None"],
   [kind |-> "odd",   is_Rational |-> FALSE, p |-> 0, q |-> 0, real |-> "True", integer |-> "True",  odd |-> "True",  even |-> "False"],
   [kind |-> "even",  is_Rational |-> FALSE, p |-> 0, q |-> 0, real |-> "True", integer |-> "True",  odd |-> "False", even |-> "True"],
   [kind |-> "real",  is_Rational |-> FALSE, p |-> 0, q |-> 0, real |-> "True", integer |-> "None",  odd |-> "None",  even |-> "None"],
   [kind |-> "imaginary", is_Rational |-> FALSE, p |-> 0, q |-> 0, real |-> "False", integer |-> "False", odd |-> "False", even |-> "False"],
   [kind |-> "unknown", is_Rational |-> FALSE, p |-> 0, q |-> 0, real |-> "None", integer |-> "None", odd |-> "None", even |-> "None"]}

\* ask(Q.even(expr.exp.q), assumptions): q is an int, even by its parity.
AskEvenInt(q) == PyBool(q % 2 = 0)

\* env.number is what AskRealHandler._number answers (it may be None).
AskRealHandler_Pow(expr, env) ==
  IF expr.is_number THEN env.number
  ELSE IF Truthy(expr.base.imaginary)
  THEN IF Truthy(expr.exp.real)
       THEN IF Truthy(expr.exp.odd) THEN "False"
            ELSE IF Truthy(expr.exp.even) THEN "True"
            ELSE "None"
       ELSE "None"
  ELSE IF Truthy(expr.base.real)
  THEN IF Truthy(expr.exp.real)
       THEN IF expr.exp.is_Rational /\ Truthy(AskEvenInt(expr.exp.q))
            THEN expr.base.positive
            ELSE IF Truthy(expr.exp.integer) THEN "True"
            ELSE IF Truthy(expr.base.positive) THEN "True"
            ELSE IF Truthy(expr.base.negative) THEN "False"
            ELSE "None"
       ELSE "None"
  ELSE "None"

RealPowInputs ==
  {[fn |-> "AskRealHandler.Pow",
    expr |-> [is_number |-> num, base |-> b, exp |-> x],
    env |-> [number |-> n], pc |-> "pending", result |-> "None"] :
     num \in BOOLEAN, b \in PowBases, x \in PowExps, n \in Tri}

CallRealPow ==
  /\ Pending("AskRealHandler.Pow")
  /\ call' = [call EXCEPT !.pc = "done", !.result = AskRealHandler_Pow(call.expr, call.env)]
  /\ UNCHANGED <<cache, nextId, heap>>

(***************************************************************************)
(* AskHermitianHandler.Mul                                                 *)
(***************************************************************************)
\* A factor as Q.antihermitian, Q.hermitian and ~Q.commutative see it.
HermitianFactors ==
  {[antihermitian |-> ah[1], hermitian |-> ah[2], noncommutative |-> n] :
     ah \in {<<"True", "False">>, <<"False", "True">>, <<"True", "True">>,
             <<"False", "False">>, <<"None", "None">>},
     n \in {"True", "False"}}

\* One pass of the loop of AskHermitianHandler.Mul; acc is
\* [result, nccount].
HermitianMulStep_NoCount(arg, acc) ==
  LET flipped == IF Truthy(arg.antihermitian) THEN XorTrue(acc.result)
                 ELSE acc.result
  IN IF ~Truthy(arg.antihermitian) /\ ~Truthy(arg.hermitian) THEN Break
     ELSE Continue([result |-> flipped, nccount |-> acc.nccount])

HermitianMulStep(arg, acc) ==
  LET flipped == IF Truthy(arg.antihermitian) THEN XorTrue(acc.result)
                 ELSE acc.result
  IN IF ~Truthy(arg.antihermitian) /\ ~Truthy(arg.hermitian) THEN Break
     ELSE IF Truthy(arg.noncommutative)
          THEN IF acc.nccount + 1 > 1 THEN Break
               ELSE Continue([result |-> flipped, nccount |-> acc.nccount + 1])
          ELSE Continue([result |-> flipped, nccount |-> acc.nccount])

\* env.number is what AskRealHandler._number answers (it may be None).
AskHermitianHandler_Mul(expr, env) ==
  IF expr.is_number THEN env.number
  ELSE LET fin(acc) == PyBool(acc.result)
       IN ForElse(HermitianMulStep, fin, expr.args, 1,
                  [result |-> TRUE, nccount |-> 0])

HermitianMulInputs ==
  {[fn |-> "AskHermitianHandler.Mul", expr |-> e, env |-> [number |-> n], pc |-> "pending", result |-> "None"] :
     e \in NonNumeric(HermitianFactors), n \in {"None"}}
  \cup
  {[fn |-> "AskHermitianHandler.Mul", expr |-> e, env |-> [number |-> n], pc |-> "pending", result |-> "None"] :
     e \in Numeric(HermitianFactors), n \in Tri}

CallHermitianMul ==
  /\ Pending("AskHermitianHandler.Mul")
  /\ call' = [call EXCEPT !.pc = "done", !.result = AskHermitianHandler_Mul(call.expr, call.env)]
  /\ UNCHANGED <<cache, nextId, heap>>

(***************************************************************************)
(* qapply.py: expressions                                                  *)
(*                                                                         *)
(* An expression is Zero or a product in sympy's normal form: commutative  *)
(* factors first (cs gives the exponent of the real scalar symbol c and of *)
(* the unevaluated InnerProduct(b, k), 0 when absent), then the            *)
(* noncommutative factors in order (nc), each a base with an integer       *)
(* exponent: exponent 1 is the bare object, any other exponent a Pow.      *)
(* The objects are the Hermitian operator A, the ket k and its dual bra b. *)
(* None (no result) and a raised exception are values of the same shape.   *)
(***************************************************************************)
NoScalars == [c |-> 0, ip |-> 0]

Val(t, cs, nc) == [t |-> t, cs |-> cs, nc |-> nc]

Zero == Val("Zero", NoScalars, <<>>)
One == Val("Expr", NoScalars, <<>>)
None == Val("None", NoScalars, <<>>)
Raise(exc) == Val(exc, NoScalars, <<>>)

Item(b, e) == [b |-> b, e |-> e]
Single(item) == Val("Expr", NoScalars, <<item>>)
Ket == Item("k", 1)
Bra == Item("b", 1)
Op == Item("A", 1)

\* InnerProduct(b, k), the scalar c, and c*|k>.
InnerProduct == Val("Expr", [c |-> 0, ip |-> 1], <<>>)
ScalarC == Val("Expr", [c |-> 1, ip |-> 0], <<>>)
CTimesKet == Val("Expr", [c |-> 1, ip |-> 0], <<Ket>>)

IsErr(v) == v.t \notin {"Zero", "Expr", "None"}

\* Mul.flatten on the noncommutative part: adjacent factors with the same
\* base combine their exponents; a factor whose exponent becomes 0 is 1.
RECURSIVE Flatten(_)
Flatten(s) ==
  IF \E i \in 1..(Len(s) - 1) : s[i].b = s[i + 1].b
  THEN LET i == CHOOSE j \in 1..(Len(s) - 1) :
                  /\ s[j].b = s[j + 1].b
                  /\ \A h \in 1..(j - 1) : s[h].b # s[h + 1].b
           e == s[i].e + s[i + 1].e
           mid == IF e = 0 THEN <<>> ELSE <<Item(s[i].b, e)>>
       IN Flatten(SubSeq(s, 1, i - 1) \o mid \o SubSeq(s, i + 2, Len(s)))
  ELSE s

\* x*y.  An exception raised while computing x or y propagates.
MulE(x, y) ==
  IF IsErr(x) THEN x
  ELSE IF IsErr(y) THEN y
  ELSE IF x.t = "Zero" \/ y.t = "Zero" THEN Zero
  ELSE Val("Expr", [c |-> x.cs.c + y.cs.c, ip |-> x.cs.ip + y.cs.ip],
           Flatten(x.nc \o y.nc))

\* len(e.args): one arg per commutative base, one per noncommutative factor.
\* An expression with a single arg is that arg, not a Mul.
NumArgs(e) ==
  (IF e.cs.c # 0 THEN 1 ELSE 0) + (IF e.cs.ip # 0 THEN 1 ELSE 0) + Len(e.nc)

IsMul(e) == e.t = "Expr" /\ NumArgs(e) >= 2
IsKetBase(e) == e = Single(Ket)
IsPow(e) ==
  /\ e.t = "Expr"
  /\ NumArgs(e) = 1
  /\ \/ (e.nc # <<>> /\ e.nc[1].e # 1)
     \/ (e.nc = <<>> /\ (e.cs.c + e.cs.ip) # 1)
IsInnerProduct(e) == e = InnerProduct

\* base**exp for an expression with a single factor of exponent 1.
PowE(base, exp) ==
  IF IsErr(base) THEN base
  ELSE Val("Expr", [c |-> base.cs.c * exp, ip |-> base.cs.ip * exp],
           [i \in 1..Len(base.nc) |-> Item(base.nc[i].b, base.nc[i].e * exp)])

BaseOf(e) ==
  Val("Expr", [c |-> IF e.cs.c # 0 THEN 1 ELSE 0, ip |-> IF e.cs.ip # 0 THEN 1 ELSE 0],
      [i \in 1..Len(e.nc) |-> Item(e.nc[i].b, 1)])
ExpOf(e) == IF e.nc # <<>> THEN e.nc[1].e ELSE e.cs.c + e.cs.ip

\* Dagger: the scalars are real, A is Hermitian, |k> and <b| are duals; the
\* order of the noncommutative factors is reversed.
DaggerAtom(b) == CASE b = "k" -> "b" [] b = "b" -> "k" [] OTHER -> b
Dagger(e) ==
  IF e.t # "Expr" THEN e
  ELSE Val("Expr", e.cs,
           [i \in 1..Len(e.nc) |->
              Item(DaggerAtom(e.nc[Len(e.nc) + 1 - i].b), e.nc[Len(e.nc) + 1 - i].e)])

\* e.expand(commutator=True, tensorproduct=True): there is no Add,
\* Commutator or TensorProduct in these expressions, so nothing to expand.
Expand(e) == e

(***************************************************************************)
(* qapply.py: the options and the library's answers                        *)
(***************************************************************************)
\* options.get(key, default) with a bool stored under the key, or no key.
OptionValues == {"absent", "True", "False"}
Options == [dagger : OptionValues, ip_doit : OptionValues]
Get(options, key, default) ==
  IF options[key] = "absent" THEN default ELSE options[key] = "True"

\* What the objects answer.  env.opket is A._apply_operator(|k>), env.ketop
\* is |k>._apply_operator(A), env.doit is InnerProduct(b, k).doit().  An
\* Operator or a Ket raises NotImplementedError for an argument it has no
\* rule for; a Bra and a Pow have no _apply_operator (AttributeError).
Envs ==
  [opket : {Raise("NotImplementedError"), Zero, CTimesKet},
   ketop : {Raise("NotImplementedError"), CTimesKet},
   doit  : {InnerProduct, Zero, ScalarC}]

ApplyOperator(env, recv, arg) ==
  IF recv.e # 1 \/ recv.b = "b" THEN Raise("AttributeError")
  ELSE IF recv.b = "A" /\ arg = Ket THEN env.opket
  ELSE IF recv.b = "k" /\ arg = Op THEN env.ketop
  ELSE Raise("NotImplementedError")

\* One entry of the log a computation keeps of what it did, in order: the
\* library call made (recv._apply_operator(arg), InnerProduct(recv, arg),
\* InnerProduct(recv, arg).doit()) or the value the try block left in
\* result, what came of it (val), and the frame of qapply_Mul that did it
\* (the number of frames it had left).
Entry(op, recv, arg, val) ==
  [op |-> op, recv |-> recv, arg |-> arg, val |-> val, frame |-> 0]
Applied(recv, arg, val) == Entry("_apply_operator", recv, arg, val)
Built(lhs, rhs) == Entry("InnerProduct", lhs, rhs, InnerProduct)
DidIt(lhs, rhs, val) == Entry("doit", lhs, rhs, val)
Outcome(lhs, rhs, val) == Entry("result", lhs, rhs, val)
InFrame(log, d) == [i \in 1..Len(log) |-> [log[i] EXCEPT !.frame = d]]

Res(v, log) == [v |-> v, log |-> log]

(***************************************************************************)
(* qapply.py: the try block of qapply_Mul                                  *)
(***************************************************************************)
\* except (NotImplementedError, AttributeError)
Caught(r) == r.t \in {"NotImplementedError", "AttributeError"}

\* The bra-ket fallback of the inner except clause.
Fallback(env, lhs, rhs, ip_doit) ==
  IF lhs = Bra /\ rhs = Ket
  THEN IF ip_doit
       THEN Res(env.doit, <<Built(lhs, rhs), DidIt(lhs, rhs, env.doit)>>)
       ELSE Res(InnerProduct, <<Built(lhs, rhs)>>)
  ELSE Res(None, <<>>)

TryApply_OnlyNotImplemented(env, lhs, rhs, ip_doit) ==
  LET r1 == ApplyOperator(env, lhs, rhs)
      r2 == ApplyOperator(env, rhs, lhs)
      fb == Fallback(env, lhs, rhs, ip_doit)
  IN IF r1.t # "NotImplementedError" THEN Res(r1, <<Applied(lhs, rhs, r1)>>)
     ELSE IF r2.t # "NotImplementedError"
          THEN Res(r2, <<Applied(lhs, rhs, r1), Applied(rhs, lhs, r2)>>)
          ELSE Res(fb.v, <<Applied(lhs, rhs, r1), Applied(rhs, lhs, r2)>> \o fb.log)

TryApply(env, lhs, rhs, ip_doit) ==
  LET r1 == ApplyOperator(env, lhs, rhs)
      r2 == ApplyOperator(env, rhs, lhs)
      fb == Fallback(env, lhs, rhs, ip_doit)
  IN IF ~Caught(r1) THEN Res(r1, <<Applied(lhs, rhs, r1)>>)
     ELSE IF ~Caught(r2)
          THEN Res(r2, <<Applied(lhs, rhs, r1), Applied(rhs, lhs, r2)>>)
          ELSE Res(fb.v, <<Applied(lhs, rhs, r1), Applied(rhs, lhs, r2)>> \o fb.log)

(***************************************************************************)
(* qapply.py: qapply and qapply_Mul                                        *)
(***************************************************************************)
\* Frames the interpreter allows before it raises RecursionError.
RecursionLimit == 24

\* dagger = options.get('dagger', False)
DaggerOption_DefaultTrue(options) == Get(options, "dagger", TRUE)

DaggerOption(options) == Get(options, "dagger", FALSE)

\* ip_doit = options.get('ip_doit', True)
IpDoitOption_DefaultFalse(options) == Get(options, "ip_doit", FALSE)

IpDoitOption(options) == Get(options, "ip_doit", TRUE)

RECURSIVE qapply(_, _, _, _)
RECURSIVE qapply_Mul(_, _, _, _)

\* d is the number of frames left.  The answer is the value returned (or
\* the exception raised) and the log of the library calls made.
qapply_Mul(e, options, env, d) ==
  IF d = 0 THEN Res(Raise("RecursionError"), <<>>)
  ELSE IF NumArgs(e) <= 1 \/ ~IsMul(e) THEN Res(e, <<>>)
  \* rhs and lhs are the last two args; a commutative one ends the work.
  ELSE IF Len(e.nc) < 2 THEN Res(e, <<>>)
  ELSE
    LET n == Len(e.nc)
        rhs == e.nc[n]
        lhs0 == e.nc[n - 1]
        args0 == SubSeq(e.nc, 1, n - 2)
        isPow == lhs0.e # 1
        args == IF isPow THEN Append(args0, Item(lhs0.b, lhs0.e - 1)) ELSE args0
        lhs == IF isPow THEN Item(lhs0.b, 1) ELSE lhs0
        \* e.func(*args)
        front == Val("Expr", e.cs, Flatten(args))
        try == TryApply(env, lhs, rhs, IpDoitOption(options))
        result == try.v
        t == Res(result, InFrame(Append(try.log, Outcome(lhs, rhs, result)), d))
    IN IF IsErr(result) THEN t
       ELSE IF result = Zero THEN Res(Zero, t.log)
       ELSE IF result = None
       THEN IF NumArgs(front) = 0 /\ args = <<>>
            THEN Res(e, t.log)
            ELSE LET sub == qapply_Mul(MulE(front, Single(lhs)), options, env, d - 1)
                 IN Res(MulE(sub.v, Single(rhs)), t.log \o sub.log)
       ELSE IF IsInnerProduct(result)
       THEN LET sub == qapply_Mul(front, options, env, d - 1)
            IN Res(MulE(result, sub.v), t.log \o sub.log)
       ELSE LET sub == qapply(MulE(front, result), options, env, d - 1)
            IN Res(sub.v, t.log \o sub.log)

qapply(e0, options, env, d) ==
  IF d = 0 THEN Res(Raise("RecursionError"), <<>>)
  ELSE IF e0 = Zero THEN Res(Zero, <<>>)
  ELSE
    LET e == Expand(e0) IN
    IF IsKetBase(e) THEN Res(e, <<>>)
    ELSE IF IsPow(e)
    THEN LET sub == qapply(BaseOf(e), options, env, d - 1)
         IN Res(PowE(sub.v, ExpOf(e)), sub.log)
    ELSE IF IsMul(e)
    THEN LET first == qapply_Mul(e, options, env, d - 1)
         IN IF first.v = e /\ DaggerOption(options)
            THEN LET second == qapply_Mul(Dagger(e), options, env, d - 1)
                 IN Res(Dagger(second.v), first.log \o second.log)
            ELSE first
    ELSE Res(e, <<>>)

(***************************************************************************)
(* qapply.py: the calls                                                    *)
(***************************************************************************)
\* Largest number of noncommutative factors written in an input product.
MaxFactors == 3

\* The expressions handed to qapply: c**i times a product of up to
\* MaxFactors objects among A, A**2, |k>, <b|, as Mul builds it.
InputItems == {Op, Item("A", 2), Ket, Bra}

InputExprs ==
  {Val("Expr", [c |-> i, ip |-> 0], Flatten(s)) :
     i \in {0, 1}, s \in UNION {[1..n -> InputItems] : n \in 0..MaxFactors}}

\* A call of fn on e waiting to run.
QapplyInput(fn, e, o, v) ==
  [fn |-> fn, expr |-> e, options |-> o, env |-> v, pc |-> "pending",
   result |-> Res(None, <<>>)]

CallQapply ==
  /\ Pending("qapply")
  /\ call' = [call EXCEPT
                !.pc = "done",
                !.result = qapply(call.expr, call.options, call.env, RecursionLimit)]
  /\ UNCHANGED <<cache, nextId, heap>>

CallQapplyMul ==
  /\ Pending("qapply_Mul")
  /\ call' = [call EXCEPT
                !.pc = "done",
                !.result = qapply_Mul(call.expr, call.options, call.env, RecursionLimit)]
  /\ UNCHANGED <<cache, nextId, heap>>

(***************************************************************************)
(* trigonometry.py: _pat_sincos and trigintegrate                          *)
(***************************************************************************)
\* The integration variables, and the integrands: sin(a*v)**n * cos(a*v)**m
\* (the constant 1 when n = m = 0), tan(a*v), or something else such as
\* exp(v).
Vars == {"x", "y"}
TrigExps == {-2, -1, 0, 1, 2}
Integrands ==
  {[form |-> "sincos", v |-> v, n |-> n, m |-> m] : v \in Vars, n \in TrigExps, m \in TrigExps}
  \cup {[form |-> fm, v |-> v, n |-> 0, m |-> 0] : fm \in {"tan", "exp"}, v \in Vars}
Conds == {"piecewise", "none"}

\* The tuple (pat, a, n, m) that _pat_sincos(x) builds: the pattern
\* sin(a*x)**n * cos(a*x)**m whose Wilds exclude x.  id tells the objects of
\* one construction from those of another.
Pattern(x, id) == [x |-> x, id |-> id]
NoEntry == Pattern("", 0)

\* @cacheit: the tuple built for x is kept and handed out again for the
\* same x.  The answer is the tuple, the cache afterwards, and whether the
\* tuple came from the cache.
pat_sincos_AnyEntry(memo, x, id) ==
  IF \E k \in Vars : memo[k] # NoEntry
  THEN [pat |-> memo[CHOOSE k \in Vars : memo[k] # NoEntry], memo |-> memo,
        hit |-> TRUE]
  ELSE [pat |-> Pattern(x, id), memo |-> [memo EXCEPT ![x] = Pattern(x, id)],
        hit |-> FALSE]

pat_sincos(memo, x, id) ==
  IF memo[x] # NoEntry
  THEN [pat |-> memo[x], memo |-> memo, hit |-> TRUE]
  ELSE [pat |-> Pattern(x, id), memo |-> [memo EXCEPT ![x] = Pattern(x, id)],
        hit |-> FALSE]

\* f.rewrite('sincos'): tan(a*v) becomes sin(a*v)/cos(a*v).
RewriteSincos(f) ==
  IF f.form = "tan" THEN [form |-> "sincos", v |-> f.v, n |-> 1, m |-> -1]
  ELSE f

\* f.match(pat): the constant 1 matches with n = m = 0; otherwise f must be
\* a product of powers of sin and cos of a multiple of the variable the
\* pattern was built for (a may not contain it).
Match(f, pat) ==
  IF f.form # "sincos" THEN [ok |-> FALSE, n |-> 0, m |-> 0]
  ELSE IF f.n = 0 /\ f.m = 0 THEN [ok |-> TRUE, n |-> 0, m |-> 0]
  ELSE IF f.v = pat.x THEN [ok |-> TRUE, n |-> f.n, m |-> f.m]
  ELSE [ok |-> FALSE, n |-> 0, m |-> 0]

Abs(i) == IF i < 0 THEN -i ELSE i
IsOdd(i) == i % 2 = 1

\* What trigintegrate returns, as the rule it took, the exponents it took
\* it with: "None", "x", a substitution u = cos or u = sin, or one of the
\* rules for two even exponents, and the expression res (fx in the odd
\* case) it built before res.subs(x, a*x) / a.
Answer(rule, n, m, zz, conds, res) ==
  [rule |-> rule, n |-> n, m |-> m, zz |-> zz, conds |-> conds,
   res |-> res.v, raised |-> res.err]

TrigRule(n, m) ==
  IF IsOdd(n) \/ IsOdd(m)
  THEN LET n_ == IF IsOdd(n) /\ IsOdd(m) THEN n < m ELSE IsOdd(n)
       IN IF n_ THEN "u = cos" ELSE "u = sin"
  ELSE IF Abs(n) > Abs(m)
  THEN IF m > 0 THEN "sum of _sin_pow_integrate"
       ELSE IF m = 0 THEN "_sin_pow_integrate"
       ELSE "reduce n, raise m"
  ELSE IF Abs(m) > Abs(n)
  THEN IF n > 0 THEN "sum of _cos_pow_integrate"
       ELSE IF n = 0 THEN "_cos_pow_integrate"
       ELSE "reduce m, raise n"
  ELSE IF m = n THEN "sin(2x)/2"
  ELSE IF n < 0 THEN "reduce m, raise n, integrate"
  ELSE "reduce n, raise m, integrate"

(***************************************************************************)
(* trigonometry.py: the values res is built from.  A Rational is p/q in    *)
(* lowest terms with q > 0.  An expression is a sum of Rational multiples  *)
(* of x, of products cos(x)**c * sin(x)**s, and of integrals left to       *)
(* integrate(); Add and Mul keep one term per product and drop a term      *)
(* whose coefficient is 0, and a Rational times a sum is distributed.      *)
(***************************************************************************)
RECURSIVE Gcd(_, _)
Gcd(a, b) == IF b = 0 THEN a ELSE Gcd(b, a % b)

\* Rational(p, q), q # 0.
Rational(p, q) ==
  LET g == Gcd(Abs(p), Abs(q))
      sgn == IF q < 0 THEN -1 ELSE 1
  IN [p |-> (sgn * p) \div g, q |-> (sgn * q) \div g]

RMul(r1, r2) == Rational(r1.p * r2.p, r1.q * r2.q)
RAdd(r1, r2) == Rational(r1.p * r2.q + r2.p * r1.q, r1.q * r2.q)

\* The products a term is a multiple of: x; cos(x)**c * sin(x)**s; the
\* antiderivative integrate() finds for sin**s * cos**c after the
\* substitution of the odd case ("fx") or without one ("integrate"); and
\* integrate((sin(2*x)/2)**c, x).
Key(form, c, s) == [form |-> form, c |-> c, s |-> s]
X == Key("x", 0, 0)
CosSin(c, s) == Key("trig", c, s)

\* r * key as an expression.
Term(r, key) == IF r.p = 0 THEN {} ELSE {[k |-> key, c |-> r]}

Coef(v, key) ==
  IF \E t \in v : t.k = key THEN (CHOOSE t \in v : t.k = key).c
  ELSE Rational(0, 1)

\* v + w
AddV(v, w) ==
  UNION {Term(RAdd(Coef(v, key), Coef(w, key)), key) :
           key \in {t.k : t \in v \cup w}}

\* r * v
ScaleV(r, v) == UNION {Term(RMul(r, t.c), t.k) : t \in v}

\* binomial(n, k) for 0 <= k <= n
RECURSIVE binomial(_, _)
binomial(n, k) ==
  IF k = 0 \/ k = n THEN 1 ELSE binomial(n - 1, k - 1) + binomial(n - 1, k)

\* (-1)**i
MinusOneTo(i) == IF i % 2 = 0 THEN 1 ELSE -1

\* What a call answers: the expression returned and the values of n the
\* calls of _sin_pow_integrate / _cos_pow_integrate went through, or the
\* RecursionError raised when no frame is left.
Returned(v, path) == [err |-> FALSE, v |-> v, path |-> path]
RecursionError == [err |-> TRUE, v |-> {}, path |-> <<>>]

(***************************************************************************)
(* trigonometry.py: _sin_pow_integrate, _cos_pow_integrate and the part of *)
(* trigintegrate after the match.  d is the number of frames left.         *)
(***************************************************************************)
\* The n of the recursive call of _sin_pow_integrate(n, x) and of
\* _cos_pow_integrate(n, x): n - 2 in the branch n > 0, n + 2 in the
\* branch n < 0.
PowNext_AlwaysDown(n) == n - 2

PowNext(n) == IF n > 0 THEN n - 2 ELSE n + 2

RECURSIVE sin_pow_integrate(_, _, _)
RECURSIVE cos_pow_integrate(_, _, _)
RECURSIVE SinSum(_, _, _, _, _, _)
RECURSIVE CosSum(_, _, _, _, _, _)
RECURSIVE trigintegrate_matched(_, _, _, _)

sin_pow_integrate(n, x, d) ==
  IF d = 0 THEN RecursionError
  ELSE IF n > 0
  THEN IF n = 1 THEN Returned(Term(Rational(-1, 1), CosSin(1, 0)), <<n>>)
       ELSE LET sub == sin_pow_integrate(PowNext(n), x, d - 1)
            IN IF sub.err THEN RecursionError
               ELSE Returned(AddV(Term(Rational(-1, n), CosSin(1, n - 1)),
                                  ScaleV(Rational(n - 1, n), sub.v)),
                             <<n>> \o sub.path)
  ELSE IF n < 0
  THEN IF n = -1
       THEN LET t == trigintegrate_matched(-1, 0, x, d - 1)
            IN IF t.err THEN RecursionError ELSE Returned(t.v, <<n>>)
       ELSE LET sub == sin_pow_integrate(PowNext(n), x, d - 1)
            IN IF sub.err THEN RecursionError
               ELSE Returned(AddV(Term(Rational(1, n + 1), CosSin(1, n + 1)),
                                  ScaleV(Rational(n + 2, n + 1), sub.v)),
                             <<n>> \o sub.path)
  ELSE Returned(Term(Rational(1, 1), X), <<n>>)

cos_pow_integrate(n, x, d) ==
  IF d = 0 THEN RecursionError
  ELSE IF n > 0
  THEN IF n = 1 THEN Returned(Term(Rational(1, 1), CosSin(0, 1)), <<n>>)
       ELSE LET sub == cos_pow_integrate(PowNext(n), x, d - 1)
            IN IF sub.err THEN RecursionError
               ELSE Returned(AddV(Term(Rational(1, n), CosSin(n - 1, 1)),
                                  ScaleV(Rational(n - 1, n), sub.v)),
                             <<n>> \o sub.path)
  ELSE IF n < 0
  THEN IF n = -1
       THEN LET t == trigintegrate_matched(0, -1, x, d - 1)
            IN IF t.err THEN RecursionError ELSE Returned(t.v, <<n>>)
       ELSE LET sub == cos_pow_integrate(PowNext(n), x, d - 1)
            IN IF sub.err THEN RecursionError
               ELSE Returned(AddV(Term(Rational(-1, n + 1), CosSin(n + 1, 1)),
                                  ScaleV(Rational(n + 2, n + 1), sub.v)),
                             <<n>> \o sub.path)
  ELSE Returned(Term(Rational(1, 1), X), <<n>>)

\* (-1)**i * binomial(k, i)
SignedBinomial_NoSign(k, i) == Rational(binomial(k, i), 1)

SignedBinomial(k, i) == Rational(MinusOneTo(i) * binomial(k, i), 1)

\* for i in range(0, m//2 + 1): res += (-1)**i * binomial(m//2, i) *
\*                                      _sin_pow_integrate(n + 2*i, x)
SinSum(n, m, x, d, i, res) ==
  IF i >= m \div 2 + 1 THEN Returned(res, <<>>)
  ELSE LET s == sin_pow_integrate(n + 2 * i, x, d - 1)
       IN IF s.err THEN RecursionError
          ELSE SinSum(n, m, x, d, i + 1,
                      AddV(res, ScaleV(SignedBinomial(m \div 2, i), s.v)))

\* for i in range(0, n//2 + 1): res += (-1)**i * binomial(n//2, i) *
\*                                      _cos_pow_integrate(m + 2*i, x)
CosSum(n, m, x, d, i, res) ==
  IF i >= n \div 2 + 1 THEN Returned(res, <<>>)
  ELSE LET s == cos_pow_integrate(m + 2 * i, x, d - 1)
       IN IF s.err THEN RecursionError
          ELSE CosSum(n, m, x, d, i + 1,
                      AddV(res, ScaleV(SignedBinomial(n \div 2, i), s.v)))

\* r1 * term + r2 * rest, rest the answer of a further call.
Reduced(r1, key, r2, rest) ==
  IF rest.err THEN RecursionError
  ELSE Returned(AddV(Term(r1, key), ScaleV(r2, rest.v)), <<>>)

\* trigintegrate(sin(x)**n * cos(x)**m, x) after the match (a = 1): x for
\* n = m = 0, fx of the odd case, else res.
trigintegrate_matched(n, m, x, d) ==
  IF d = 0 THEN RecursionError
  ELSE IF n = 0 /\ m = 0 THEN Returned(Term(Rational(1, 1), X), <<>>)
  ELSE IF IsOdd(n) \/ IsOdd(m)
  THEN Returned(Term(Rational(1, 1), Key("fx", m, n)), <<>>)
  ELSE IF Abs(n) > Abs(m)
  THEN IF m > 0 THEN SinSum(n, m, x, d, 0, {})
       ELSE IF m = 0
       THEN LET s == sin_pow_integrate(n, x, d - 1)
            IN IF s.err THEN RecursionError ELSE Returned(s.v, <<>>)
       ELSE Reduced(Rational(-1, m + 1), CosSin(m + 1, n - 1),
                    Rational(n - 1, m + 1),
                    trigintegrate_matched(n - 2, m + 2, x, d - 1))
  ELSE IF Abs(m) > Abs(n)
  THEN IF n > 0 THEN CosSum(n, m, x, d, 0, {})
       ELSE IF n = 0
       THEN LET s == cos_pow_integrate(m, x, d - 1)
            IN IF s.err THEN RecursionError ELSE Returned(s.v, <<>>)
       ELSE Reduced(Rational(1, n + 1), CosSin(m - 1, n + 1),
                    Rational(m - 1, n + 1),
                    trigintegrate_matched(n + 2, m - 2, x, d - 1))
  ELSE IF m = n
  THEN Returned(Term(Rational(1, 1), Key("integrate sin(2*x)/2", m, m)), <<>>)
  ELSE IF n < 0
  THEN Reduced(Rational(1, n + 1), CosSin(m - 1, n + 1),
               Rational(m - 1, n + 1),
               Returned(Term(Rational(1, 1), Key("integrate", m - 2, n + 2)), <<>>))
  ELSE Reduced(Rational(-1, m + 1), CosSin(m + 1, n - 1),
               Rational(n - 1, m + 1),
               Returned(Term(Rational(1, 1), Key("integrate", m + 2, n - 2)), <<>>))

\* trigintegrate(f, x, conds) run with the cache memo, id numbering the
\* next tuple _pat_sincos builds: the value returned, the cache afterwards,
\* and whether the pattern came from the cache.
trigintegrate(f, x, conds, memo, id) ==
  LET p == pat_sincos(memo, x, id)
      M == Match(RewriteSincos(f), p.pat)
      zz == IF M.n = 0 THEN "x" ELSE "0"
      res == trigintegrate_matched(M.n, M.m, x, RecursionLimit)
      v == IF ~M.ok THEN Answer("None", 0, 0, "0", conds, Returned({}, <<>>))
           ELSE IF M.n = 0 /\ M.m = 0 THEN Answer("x", 0, 0, "0", conds, res)
           ELSE Answer(TrigRule(M.n, M.m), M.n, M.m, zz, conds, res)
  IN [v |-> v, memo |-> p.memo, hit |-> p.hit, pat |-> p.pat]

EmptyCache == [k \in Vars |-> NoEntry]

CallTrigintegrate ==
  \E f \in Integrands, x \in Vars, conds \in Conds :
    LET r == trigintegrate(f, x, conds, cache, nextId)
    IN /\ call' = [fn |-> "trigintegrate", expr |-> f, x |-> x, conds |-> conds,
                   pc |-> "done", result |-> r.v, hit |-> r.hit, pat |-> r.pat]
       /\ cache' = r.memo
       /\ nextId' = IF r.hit THEN nextId ELSE nextId + 1
       /\ UNCHANGED heap

\* qapply called among the calls of trigintegrate, on a few products.
SessionExprs ==
  {Val("Expr", NoScalars, s) : s \in {<<Bra, Op>>, <<Op, Ket>>, <<Bra, Ket>>,
                                       <<Bra, Op, Ket>>}}
SessionOptions ==
  {[dagger |-> "absent", ip_doit |-> "absent"], [dagger |-> "True", ip_doit |-> "False"]}
SessionEnvs ==
  {[opket |-> CTimesKet, ketop |-> Raise("NotImplementedError"), doit |-> ScalarC],
   [opket |-> Raise("NotImplementedError"), ketop |-> Raise("NotImplementedError"),
    doit |-> InnerProduct]}

CallQapplyInSession ==
  \E e \in SessionExprs, o \in SessionOptions, v \in SessionEnvs :
    /\ call' = [fn |-> "qapply", expr |-> e, options |-> o, env |-> v,
                pc |-> "done", result |-> qapply(e, o, v, RecursionLimit)]
    /\ UNCHANGED <<cache, nextId, heap>>

(***************************************************************************)
(* Specifications                                                          *)
(***************************************************************************)
\* The handlers of sets.py are pure: a run is one call on one expression.
InitAsk ==
  /\ call \in IntegerMulInputs \cup RealMulInputs \cup RealPowInputs
               \cup ImaginaryAddInputs \cup HermitianMulInputs
  /\ cache = <<>>
  /\ nextId = 1
  /\ heap = <<>>

NextAsk ==
  \/ CallIntegerMul
  \/ CallRealMul
  \/ CallRealPow
  \/ CallImaginaryAdd
  \/ CallHermitianMul

SpecAsk == InitAsk /\ [][NextAsk]_vars

(***************************************************************************)
(* Claims about the handlers of sets.py (checked under SpecAsk)            *)
(***************************************************************************)
\* The call of fn has returned, and its expression was not a number.
Done(fn) == call.fn = fn /\ call.pc = "done" /\ ~call.expr.is_number

Indices == 1..Len(call.expr.args)

Even(n) == n % 2 = 0

\* Factors not known to be integers, and those among them known irrational.
NotInteger == {i \in Indices : call.expr.args[i].integer # "True"}
Irrationals == {i \in NotInteger : ~call.expr.args[i].is_Rational
                                   /\ call.expr.args[i].irrational = "True"}
FirstNotInteger == CHOOSE i \in NotInteger : \A j \in NotInteger : i <= j

\* The loop meets a second irrational factor: up to it, every factor not
\* known to be an integer is a known irrational.
SecondIrrationalMet ==
  \E k \in Irrationals : /\ Cardinality(Irrationals \cap (1..k)) = 2
                         /\ NotInteger \cap (1..k) \subseteq Irrationals

\* C5: AskIntegerHandler.Mul on a non-numeric product returns True when
\* every factor is a known integer, False when exactly one factor is known
\* irrational and all others are known integers, None when a second
\* irrational is met or the first factor not known to be an integer is a
\* Rational with denominator other than 2, and the answer to
\* ask(Q.even(2*expr)) when that factor is a Rational with denominator 2.
C5_IntegerMulTable ==
  Done("AskIntegerHandler.Mul") =>
    /\ NotInteger = {} => call.result = "True"
    /\ (Cardinality(Irrationals) = 1 /\ NotInteger = Irrationals)
         => call.result = "False"
    /\ SecondIrrationalMet => call.result = "None"
    /\ (NotInteger # {} /\ call.expr.args[FirstNotInteger].is_Rational
          /\ call.expr.args[FirstNotInteger].q # 2) => call.result = "None"
    /\ (NotInteger # {} /\ call.expr.args[FirstNotInteger].is_Rational
          /\ call.expr.args[FirstNotInteger].q = 2)
         => call.result = call.env.even2

\* Integer * irrational * irrational has returned None.
C5_Witness ==
  /\ Done("AskIntegerHandler.Mul")
  /\ Len(call.expr.args) = 3
  /\ Cardinality(Irrationals) = 2
  /\ Cardinality(NotInteger) = 2
  /\ call.result = "None"

\* C6: AskRealHandler.Pow, non-numeric, base known real, exponent a
\* Rational with even denominator: the answer is True when the base is
\* known nonnegative, a base known to be zero included.
C6_EvenRootOfNonnegative ==
  (/\ Done("AskRealHandler.Pow")
   /\ call.expr.base.real = "True"
   /\ call.expr.exp.is_Rational
   /\ Even(call.expr.exp.q)
   /\ call.expr.base.nonnegative = "True")
    => call.result = "True"

\* C7: AskRealHandler.Pow, non-numeric, base known real, exponent a
\* non-integer Rational with odd denominator: the answer is True whatever
\* the sign of the base.
C7_OddRootOfReal ==
  (/\ Done("AskRealHandler.Pow")
   /\ call.expr.base.real = "True"
   /\ call.expr.exp.is_Rational
   /\ call.expr.exp.q # 1
   /\ ~Even(call.expr.exp.q))
    => call.result = "True"

\* Factors known real, and factors known imaginary.
Reals == {i \in Indices : call.expr.args[i].real = "True"}
Imaginaries == {i \in Indices : call.expr.args[i].imaginary = "True"}

\* C8: AskRealHandler.Mul on a non-numeric product whose every factor is
\* known real or known imaginary returns True exactly when the number of
\* imaginary factors is even and False exactly when it is odd; with a factor
\* that is neither it returns None.
C8_RealMulParity ==
  Done("AskRealHandler.Mul") =>
    IF Reals \cup Imaginaries = Indices
    THEN /\ call.result = "True" <=> Even(Cardinality(Imaginaries))
         /\ call.result = "False" <=> ~Even(Cardinality(Imaginaries))
    ELSE call.result = "None"

\* imaginary * real * imaginary has returned True.
C8_Witness ==
  /\ Done("AskRealHandler.Mul")
  /\ Cardinality(Imaginaries) = 2
  /\ Cardinality(Reals) = 1
  /\ call.result = "True"

\* C9: AskImaginaryHandler.Add on a non-numeric sum returns True when every
\* term is known imaginary; False when every term is known real or known
\* imaginary and exactly one term is real or all terms are real; None when
\* two or more real terms occur with at least one imaginary term, or some
\* term is neither known imaginary nor known real.
C9_ImaginaryAddTable ==
  Done("AskImaginaryHandler.Add") =>
    /\ Imaginaries = Indices => call.result = "True"
    /\ (/\ Reals \cup Imaginaries = Indices
        /\ Cardinality(Reals) = 1 \/ Reals = Indices) => call.result = "False"
    /\ (/\ Reals \cup Imaginaries = Indices
        /\ Cardinality(Reals) >= 2
        /\ Imaginaries # {}) => call.result = "None"
    /\ Reals \cup Imaginaries # Indices => call.result = "None"

\* real + real + imaginary has returned None.
C9_Witness ==
  /\ Done("AskImaginaryHandler.Add")
  /\ Cardinality(Reals) = 2
  /\ Cardinality(Imaginaries) = 1
  /\ call.result = "None"

\* Factors known antihermitian, known hermitian, known noncommutative.
Antihermitians == {i \in Indices : call.expr.args[i].antihermitian = "True"}
Hermitians == {i \in Indices : call.expr.args[i].hermitian = "True"}
Noncommutatives == {i \in Indices : call.expr.args[i].noncommutative = "True"}

\* C10: AskHermitianHandler.Mul on a non-numeric product whose every factor
\* is known hermitian or antihermitian, with at most one noncommutative
\* factor, returns True exactly when the number of antihermitian factors is
\* even and False when it is odd; with two or more noncommutative factors,
\* or a factor that is neither, it returns None.
C10_HermitianMulParity ==
  Done("AskHermitianHandler.Mul") =>
    IF /\ Antihermitians \cup Hermitians = Indices
       /\ Cardinality(Noncommutatives) <= 1
    THEN call.result = PyBool(Even(Cardinality(Antihermitians)))
    ELSE call.result = "None"

\* A product of hermitian factors, two of them noncommutative, has
\* returned None.
C10_Witness ==
  /\ Done("AskHermitianHandler.Mul")
  /\ Antihermitians \cup Hermitians = Indices
  /\ Cardinality(Noncommutatives) = 2
  /\ call.result = "None"

\* qapply and qapply_Mul are pure: a run is one call on one expression.
InitQ ==
  /\ \E fn \in {"qapply", "qapply_Mul"}, e \in InputExprs, o \in Options, v \in Envs :
       call = QapplyInput(fn, e, o, v)
  /\ cache = <<>>
  /\ nextId = 1
  /\ heap = <<>>

NextQ ==
  \/ CallQapply
  \/ CallQapplyMul

SpecQ == InitQ /\ [][NextQ]_vars

(***************************************************************************)
(* Claims about qapply.py (checked under SpecQ)                            *)
(***************************************************************************)
\* qapply_Mul has returned from a product whose last two factors are both
\* noncommutative, so it went through its try block.
TriedPair ==
  /\ call.fn = "qapply_Mul"
  /\ call.pc = "done"
  /\ Len(call.expr.nc) >= 2

\* The last two factors, lhs with a Pow reduced to its base, and the
\* factors that remain (the power left over from lhs put back last).
PairRhs == call.expr.nc[Len(call.expr.nc)]
PairLhs == Item(call.expr.nc[Len(call.expr.nc) - 1].b, 1)
Remaining ==
  LET n == Len(call.expr.nc)
      left == call.expr.nc[n - 1].e - 1
  IN Val("Expr", call.expr.cs,
         Flatten(SubSeq(call.expr.nc, 1, n - 2)
                 \o (IF left = 0 THEN <<>> ELSE <<Item(PairLhs.b, left)>>)))

\* What the outermost frame of the call logged, by kind of entry.
IsTop(x) == x.frame = RecursionLimit
IsAttempt(x) == x.op = "_apply_operator"
IsBuilt(x) == x.op = "InnerProduct"
IsDoit(x) == x.op = "doit"
IsOutcome(x) == x.op = "result"
TopLog == SelectSeq(call.result.log, IsTop)
Attempts == SelectSeq(TopLog, IsAttempt)

Raises(v) == v.t = "NotImplementedError" \/ v.t = "AttributeError"
LhsAnswer == ApplyOperator(call.env, PairLhs, PairRhs)
RhsAnswer == ApplyOperator(call.env, PairRhs, PairLhs)
BraKet == PairLhs = Bra /\ PairRhs = Ket

\* C1: in qapply_Mul no NotImplementedError or AttributeError of an
\* operator application escapes; lhs._apply_operator(rhs) is tried first,
\* rhs._apply_operator(lhs) only if that raised, and only if both raised
\* does the fallback run: InnerProduct(lhs, rhs) for a bra and a ket,
\* otherwise result None.
C1_ApplyFallbackOrder ==
  TriedPair =>
    /\ ~Raises(call.result.v)
    /\ Len(Attempts) = (IF Raises(LhsAnswer) THEN 2 ELSE 1)
    /\ Attempts[1].recv = PairLhs /\ Attempts[1].arg = PairRhs
    /\ Raises(LhsAnswer) =>
         Attempts[2].recv = PairRhs /\ Attempts[2].arg = PairLhs
    /\ ~Raises(LhsAnswer) => SelectSeq(TopLog, IsOutcome)[1].val = LhsAnswer
    /\ (Raises(LhsAnswer) /\ ~Raises(RhsAnswer)) =>
         SelectSeq(TopLog, IsOutcome)[1].val = RhsAnswer
    /\ SelectSeq(TopLog, IsBuilt) # <<>>
         <=> (Raises(LhsAnswer) /\ Raises(RhsAnswer) /\ BraKet)
    /\ SelectSeq(TopLog, IsOutcome)[1].val = None
         <=> (Raises(LhsAnswer) /\ Raises(RhsAnswer) /\ ~BraKet)

\* <b| * A: the bra has no _apply_operator (AttributeError), A has no rule
\* for a bra (NotImplementedError), and the pair is left unapplied.
C1_Witness ==
  /\ TriedPair
  /\ LhsAnswer.t = "AttributeError"
  /\ RhsAnswer.t = "NotImplementedError"
  /\ Len(Attempts) = 2
  /\ SelectSeq(TopLog, IsOutcome)[1].val = None

\* C3: qapply on a product applies Dagger operators to the left only when
\* the option dagger is true and qapply_Mul(e) returned e unchanged, and
\* then returns Dagger(qapply_Mul(Dagger(e))); dagger defaults to False,
\* and with dagger false qapply returns qapply_Mul(e).
C3_DaggerOnlyWhenUnchanged ==
  (call.fn = "qapply" /\ call.pc = "done" /\ IsMul(call.expr)) =>
    LET plain == qapply_Mul(call.expr, call.options, call.env, RecursionLimit - 1).v
        left == qapply_Mul(Dagger(call.expr), call.options, call.env,
                           RecursionLimit - 1).v
    IN call.result.v = IF call.options.dagger = "True" /\ plain = call.expr
                       THEN Dagger(left)
                       ELSE plain

\* With dagger true, a product that qapply_Mul leaves unchanged was applied
\* to the left and changed.
C3_Witness ==
  /\ call.fn = "qapply" /\ call.pc = "done" /\ IsMul(call.expr)
  /\ call.options.dagger = "True"
  /\ qapply_Mul(call.expr, call.options, call.env, RecursionLimit - 1).v = call.expr
  /\ call.result.v # call.expr

\* C4: the inner product built by the bra-ket fallback of qapply_Mul is
\* evaluated with .doit() exactly when ip_doit is true, which it is when
\* the option is absent; with ip_doit false qapply_Mul returns the
\* unevaluated InnerProduct(lhs, rhs) times qapply_Mul of the remaining
\* factors.
C4_InnerProductDoit ==
  (TriedPair /\ SelectSeq(TopLog, IsBuilt) # <<>>) =>
    LET ip_doit == call.options.ip_doit \in {"absent", "True"}
        rest == qapply_Mul(Remaining, call.options, call.env, RecursionLimit - 1).v
    IN /\ SelectSeq(TopLog, IsDoit) # <<>> <=> ip_doit
       /\ ip_doit => SelectSeq(TopLog, IsOutcome)[1].val = call.env.doit
       /\ ~ip_doit => /\ SelectSeq(TopLog, IsOutcome)[1].val = InnerProduct
                      /\ call.result.v = MulE(InnerProduct, rest)

\* With ip_doit false, A * <b| * |k> has returned <b|k> * A.
C4_Witness ==
  /\ TriedPair
  /\ SelectSeq(TopLog, IsBuilt) # <<>>
  /\ call.options.ip_doit = "False"
  /\ Remaining.nc # <<>>
  /\ call.result.v = MulE(InnerProduct, Single(Op))

(***************************************************************************)
(* A session: calls of trigintegrate and qapply one after another in one   *)
(* interpreter, the cache of _pat_sincos living across them.               *)
(***************************************************************************)
Init ==
  /\ call = [fn |-> "none", pc |-> "done"]
  /\ cache = EmptyCache
  /\ nextId = 1
  /\ heap = <<>>

Next ==
  \/ CallTrigintegrate
  \/ CallQapplyInSession

Spec == Init /\ [][Next]_vars

\* C2 as stated: trigintegrate and qapply share no mutable state, no call
\* writes state that a later call reads.
C2_NoCallReadsWhatAnotherWrote ==
  (call.fn = "trigintegrate" /\ call.pc = "done") => ~call.hit

\* C2: the one piece of shared mutable state is the cache of _pat_sincos,
\* which trigintegrate(f, x) fills for x and never changes afterwards, and
\* which qapply leaves alone; the result of a call depends only on its own
\* arguments: it is what the same call returns with nothing cached.
C2_ResultIndependentOfHistory ==
  [][/\ call'.fn = "qapply" => cache' = cache
     /\ call'.fn = "trigintegrate" =>
          /\ \A k \in Vars : cache[k] # NoEntry => cache'[k] = cache[k]
          /\ \A k \in Vars \ {call'.x} : cache'[k] = cache[k]
          /\ call'.result =
               trigintegrate(call'.expr, call'.x, call'.conds, EmptyCache, 1).v]_vars

\* trigintegrate(sin(x)*cos(x)**2, x) has used the pattern an earlier call
\* cached for x, after a call for y cached another.
C2_Witness ==
  /\ call.fn = "trigintegrate" /\ call.pc = "done"
  /\ call.hit
  /\ call.x = "x" /\ call.pat.id = 1
  /\ cache["y"] # NoEntry
  /\ call.result.rule = "u = sin"

(***************************************************************************)
(* numpy/doc/subclassing.py: the ndarray subclasses of the document and    *)
(* the three routes by which an instance of one comes about (explicit      *)
(* constructor call, view casting, new-from-template).  Every call of a    *)
(* subclass's __new__, __init__ or __array_finalize__ is recorded, as the  *)
(* print statements of class C record it.                                  *)
(***************************************************************************)
\* Most arrays created in one session.
MaxObjects == 4

\* The subclasses the document defines with an __array_finalize__.
Subclasses == {"C", "InfoArray", "RealisticInfoArray"}
Classes == {"ndarray"} \cup Subclasses

\* What is passed as info: nothing, None, or a string.
InfoArgs == {"absent", "None", "information"}

\* The default of the parameter info=None.
InfoParam(a) == IF a = "absent" THEN "None" ELSE a

\* An instance that has no info attribute reads NoAttr.
NoAttr == "AttributeError"

\* A reference is an index of heap; None is no index.
NoneRef == 0

\* A new instance as ndarray.__new__ leaves it: it has only the attributes
\* of a standard ndarray.
Object(cls) == [cls |-> cls, info |-> NoAttr]

\* One call of a method of a subclass: the method, the class it belongs to,
\* self (NoneRef for __new__, which has none yet) and the obj it was given.
Event(method, cls, self, obj) ==
  [method |-> method, cls |-> cls, self |-> self, obj |-> obj]

\* The outcome of a method: the heap afterwards, the calls it made, and
\* what it returned.
Out(h, log, ret) == [heap |-> h, log |-> log, ret |-> ret]

\* getattr(obj, 'info', None)
GetattrInfo(h, obj) == IF h[obj].info = NoAttr THEN "None" ELSE h[obj].info

\* obj.info = v
SetInfo(h, ref, v) == [h EXCEPT ![ref].info = v]

\* C.__array_finalize__ only prints.
C_array_finalize(h, self, obj) ==
  Out(h, <<Event("__array_finalize__", "C", self, obj)>>, NoneRef)

InfoArray_array_finalize_NoCopy(h, self, obj) ==
  IF obj = NoneRef
  THEN Out(h, <<Event("__array_finalize__", "InfoArray", self, obj)>>, NoneRef)
  ELSE Out(SetInfo(h, self, "None"),
           <<Event("__array_finalize__", "InfoArray", self, obj)>>, NoneRef)

InfoArray_array_finalize(h, self, obj) ==
  IF obj = NoneRef
  THEN Out(h, <<Event("__array_finalize__", "InfoArray", self, obj)>>, NoneRef)
  ELSE Out(SetInfo(h, self, GetattrInfo(h, obj)),
           <<Event("__array_finalize__", "InfoArray", self, obj)>>, NoneRef)

RealisticInfoArray_array_finalize(h, self, obj) ==
  IF obj = NoneRef
  THEN Out(h, <<Event("__array_finalize__", "RealisticInfoArray", self, obj)>>,
           NoneRef)
  ELSE Out(SetInfo(h, self, GetattrInfo(h, obj)),
           <<Event("__array_finalize__", "RealisticInfoArray", self, obj)>>,
           NoneRef)

\* self.__array_finalize__(obj) by the class of self; ndarray itself has
\* nothing to call.
array_finalize(cls, h, self, obj) ==
  CASE cls = "C" -> C_array_finalize(h, self, obj)
    [] cls = "InfoArray" -> InfoArray_array_finalize(h, self, obj)
    [] cls = "RealisticInfoArray" -> RealisticInfoArray_array_finalize(h, self, obj)
    [] OTHER -> Out(h, <<>>, NoneRef)

\* ndarray.__new__(subtype, shape, ...): a new object of class subtype,
\* handed to __array_finalize__ with obj None.
ndarray_new_NoFinalize(subtype, h) ==
  Out(Append(h, Object(subtype)), <<>>, Len(h) + 1)

ndarray_new(subtype, h) ==
  LET self == Len(h) + 1
      f == array_finalize(subtype, Append(h, Object(subtype)), self, NoneRef)
  IN Out(f.heap, f.log, self)

\* arr.view(cls): the equivalent of ndarray.__new__(cls, ...) at the C
\* level, __array_finalize__ getting the array the view is taken from.
ndarray_view(h, arr, cls) ==
  LET self == Len(h) + 1
      f == array_finalize(cls, Append(h, Object(cls)), self, arr)
  IN Out(f.heap, f.log, self)

\* arr[1:]: a new instance of the class of arr, made from arr as template.
ndarray_getitem(h, arr) ==
  LET self == Len(h) + 1
      cls == h[arr].cls
      f == array_finalize(cls, Append(h, Object(cls)), self, arr)
  IN Out(f.heap, f.log, self)

\* C.__new__ prints and returns np.ndarray.__new__(cls, ...).
C_new(h, args) ==
  LET r == ndarray_new("C", h)
  IN Out(r.heap, <<Event("__new__", "C", NoneRef, NoneRef)>> \o r.log, r.ret)

\* C.__init__ only prints.
C_init(h, self) == Out(h, <<Event("__init__", "C", self, NoneRef)>>, NoneRef)

\* InfoArray.__new__: obj = np.ndarray.__new__(subtype, ...); obj.info = info.
InfoArray_new(h, args) ==
  LET r == ndarray_new("InfoArray", h)
  IN Out(SetInfo(r.heap, r.ret, InfoParam(args.info)),
         <<Event("__new__", "InfoArray", NoneRef, NoneRef)>> \o r.log, r.ret)

\* np.asarray of an already formed ndarray is that ndarray.
asarray(h, input_array) == input_array

\* RealisticInfoArray.__new__: obj = np.asarray(input_array).view(cls);
\* obj.info = info.
RealisticInfoArray_new(h, args) ==
  LET r == ndarray_view(h, asarray(h, args.input_array), "RealisticInfoArray")
  IN Out(SetInfo(r.heap, r.ret, InfoParam(args.info)),
         <<Event("__new__", "RealisticInfoArray", NoneRef, NoneRef)>> \o r.log,
         r.ret)

\* cls.__new__(cls, *args)
DunderNew(cls, h, args) ==
  CASE cls = "C" -> C_new(h, args)
    [] cls = "InfoArray" -> InfoArray_new(h, args)
    [] cls = "RealisticInfoArray" -> RealisticInfoArray_new(h, args)

\* self.__init__(*args): only C defines one.
DunderInit(cls, h, self) ==
  IF cls = "C" THEN C_init(h, self) ELSE Out(h, <<>>, NoneRef)

\* cls(*args): Python calls __new__ and then, when __new__ returned an
\* instance of cls, __init__ on it.
TypeCall(cls, h, args) ==
  LET r == DunderNew(cls, h, args)
      i == IF r.heap[r.ret].cls = cls THEN DunderInit(cls, r.heap, r.ret)
           ELSE Out(r.heap, <<>>, NoneRef)
  IN Out(i.heap, r.log \o i.log, r.ret)

\* What one statement of a session did: the route by which the instance
\* came about, its class, the array it was made from (NoneRef: none), the
\* info passed, the instance, and the calls of the subclass's methods.
Made(route, cls, src, info, r) ==
  [fn |-> route, cls |-> cls, src |-> src, info |-> info, pc |-> "done",
   result |-> r.ret, log |-> r.log]

\* arr = np.arange(10): a standard ndarray.
Arange ==
  /\ Len(heap) < MaxObjects
  /\ heap' = Append(heap, Object("ndarray"))
  /\ call' = Made("np.arange", "ndarray", NoneRef, "absent",
                  Out(heap', <<>>, Len(heap) + 1))
  /\ UNCHANGED <<cache, nextId>>

\* C((10,)), InfoArray(shape=(3,), info=...), RealisticInfoArray(arr, info=...)
Construct ==
  /\ Len(heap) < MaxObjects
  /\ \E cls \in Subclasses, info \in InfoArgs, arr \in 0..Len(heap) :
       /\ IF cls = "RealisticInfoArray"
          THEN arr # NoneRef /\ heap[arr].cls = "ndarray"
          ELSE arr = NoneRef
       /\ LET r == TypeCall(cls, heap, [info |-> info, input_array |-> arr])
          IN /\ heap' = r.heap
             /\ call' = Made("constructor", cls, arr, info, r)
  /\ UNCHANGED <<cache, nextId>>

\* arr.view(cls)
ViewCast ==
  /\ Len(heap) < MaxObjects
  /\ \E arr \in 1..Len(heap), cls \in Subclasses :
       LET r == ndarray_view(heap, arr, cls)
       IN /\ heap' = r.heap
          /\ call' = Made("view", cls, arr, "absent", r)
  /\ UNCHANGED <<cache, nextId>>

\* arr[1:]
Slice ==
  /\ Len(heap) < MaxObjects
  /\ \E arr \in 1..Len(heap) :
       LET r == ndarray_getitem(heap, arr)
       IN /\ heap' = r.heap
          /\ call' = Made("slice", heap[arr].cls, arr, "absent", r)
  /\ UNCHANGED <<cache, nextId>>

\* A session at the interpreter after import numpy as np.
InitNp ==
  /\ call = [fn |-> "import numpy", pc |-> "done"]
  /\ cache = <<>>
  /\ nextId = 1
  /\ heap = <<>>

NextNp ==
  \/ Arange
  \/ Construct
  \/ ViewCast
  \/ Slice

SpecNp == InitNp /\ [][NextNp]_vars

(***************************************************************************)
(* Claims about the ndarray subclasses (checked under SpecNp)              *)
(***************************************************************************)
\* The last statement made an instance of a subclass by one of the routes.
MadeSubclass == call.fn \in {"constructor", "view", "slice"} /\ call.cls \in Subclasses

\* The methods called, in order, and the calls of __array_finalize__.
MethodsCalled == [i \in 1..Len(call.log) |-> call.log[i].method]
IsFinalize(ev) == ev.method = "__array_finalize__"
Finalized == SelectSeq(call.log, IsFinalize)

\* The classes of the document whose __new__ calls ndarray.__new__, and the
\* one whose __new__ view-casts an existing array.
NewCallsNdarrayNew == {"C", "InfoArray"}
NewViewCasts == {"RealisticInfoArray"}
DefinesInit == {"C"}

\* What every route shares: __array_finalize__ is called once, on the new
\* instance; __new__ and __init__ run only on the constructor route, in the
\* order __new__, __array_finalize__, __init__; view casting passes the
\* array viewed, new-from-template an instance of the same subclass.
RoutesCallFinalize ==
  /\ Len(Finalized) = 1
  /\ Finalized[1].self = call.result /\ Finalized[1].cls = call.cls
  /\ heap[call.result].cls = call.cls
  /\ call.fn = "constructor" =>
       MethodsCalled = IF call.cls \in DefinesInit
                       THEN <<"__new__", "__array_finalize__", "__init__">>
                       ELSE <<"__new__", "__array_finalize__">>
  /\ call.fn # "constructor" => MethodsCalled = <<"__array_finalize__">>
  /\ call.fn = "view" => Finalized[1].obj = call.src
  /\ call.fn = "slice" =>
       Finalized[1].obj = call.src /\ heap[call.src].cls = call.cls

C12_InfoArrayInfo ==
  /\ \A i \in 1..Len(heap) : heap[i].cls = "InfoArray" => heap[i].info # NoAttr
  /\ (call.fn = "constructor" /\ call.cls = "InfoArray") =>
       heap[call.result].info = (IF call.info = "absent" THEN "None" ELSE call.info)
  /\ (call.fn \in {"view", "slice"} /\ call.cls = "InfoArray"
        /\ heap[call.src].cls = "InfoArray") =>
       heap[call.result].info = heap[call.src].info
  /\ (call.fn = "view" /\ call.cls = "InfoArray"
        /\ heap[call.src].cls = "ndarray") =>
       heap[call.result].info = "None"

\* The slice of a slice of InfoArray(shape=(3,), info='information') has
\* the info 'information', beside a view cast of a standard ndarray whose
\* info is None.
C12_Witness ==
  /\ call.fn = "slice" /\ call.cls = "InfoArray"
  /\ heap[call.result].info = "information"
  /\ \E i \in 1..Len(heap) : heap[i].cls = "InfoArray" /\ heap[i].info = "None"

(***************************************************************************)
(* qapply.py: products whose factor left of the rightmost one is a Pow     *)
(***************************************************************************)
\* Largest |k| of a power A**k handed to qapply.
MaxExp == 3

\* The integer exponents k for which A**k is a Pow: A**0 is 1, A**1 is A.
PowExponents == ((-MaxExp)..MaxExp) \ {0, 1}

\* c**i * front * A**k * |k>, front being nothing, a bra or a ket.
PowInputExprs ==
  {Val("Expr", [c |-> i, ip |-> 0], front \o <<Item("A", k), Ket>>) :
     i \in {0, 1}, front \in {<<>>, <<Bra>>, <<Ket>>}, k \in PowExponents}

InitPow ==
  /\ \E fn \in {"qapply", "qapply_Mul"}, e \in PowInputExprs, o \in Options,
        v \in Envs : call = QapplyInput(fn, e, o, v)
  /\ cache = <<>>
  /\ nextId = 1
  /\ heap = <<>>

NextPow ==
  \/ CallQapply
  \/ CallQapplyMul

SpecPow == InitPow /\ [][NextPow]_vars

(***************************************************************************)
(* Claims about powers in qapply_Mul (checked under SpecPow)               *)
(***************************************************************************)
\* The exponent k of the Pow left of the rightmost factor of the call.
PowK == call.expr.nc[Len(call.expr.nc) - 1].e

\* The call has returned and every application of A to a state succeeded
\* with a state, c*|k>.
PowApplied ==
  /\ call.pc = "done"
  /\ call.fn \in {"qapply", "qapply_Mul"}
  /\ call.env.opket = CTimesKet

\* An application of A to the state |k>.
IsOpOnKet(en) == en.op = "_apply_operator" /\ en.recv = Op /\ en.arg = Ket

\* C13: with A**k left of the rightmost factor |k>, qapply_Mul applies the
\* base A once to |k> (its first library call) and goes on with A**(k-1);
\* for every integer k, negative or positive, when each application of A
\* to a state returns a state, the recursion of qapply / qapply_Mul ends
\* after finitely many applications (no RecursionError).
C13_PowRecursionEnds ==
  PowApplied =>
    /\ call.result.log # <<>> /\ IsOpOnKet(call.result.log[1])
    /\ call.result.v.t # "RecursionError"

(***************************************************************************)
(* trigonometry.py: single calls of _sin_pow_integrate, _cos_pow_integrate *)
(* and trigintegrate in a fresh interpreter                                *)
(***************************************************************************)
\* Largest |n| and |m| of the powers integrated.
MaxPow == 6

PowRange == (-MaxPow)..MaxPow

\* _sin_pow_integrate(n, x) or _cos_pow_integrate(n, x) waiting to run.
PowInput(fn, n, x) ==
  [fn |-> fn, n |-> n, x |-> x, pc |-> "pending", result |-> Returned({}, <<>>)]

\* trigintegrate(sin(v)**n * cos(v)**m, x, conds) waiting to run.
TrigInput(v, n, m, x, conds) ==
  [fn |-> "trigintegrate", expr |-> [form |-> "sincos", v |-> v, n |-> n, m |-> m],
   x |-> x, conds |-> conds, pc |-> "pending",
   result |-> Answer("None", 0, 0, "0", conds, Returned({}, <<>>)),
   hit |-> FALSE, pat |-> NoEntry]

\* The recursion break at n == -1 calls trigintegrate, which calls
\* _pat_sincos(x).
CallsTrigintegrate(r) == ~r.err /\ r.path[Len(r.path)] = -1

PowDone(r) ==
  LET p == pat_sincos(cache, call.x, nextId)
  IN /\ call' = [call EXCEPT !.pc = "done", !.result = r]
     /\ cache' = IF CallsTrigintegrate(r) THEN p.memo ELSE cache
     /\ nextId' = IF CallsTrigintegrate(r) /\ ~p.hit THEN nextId + 1 ELSE nextId
     /\ UNCHANGED heap

CallSinPowIntegrate ==
  /\ Pending("_sin_pow_integrate")
  /\ PowDone(sin_pow_integrate(call.n, call.x, RecursionLimit))

CallCosPowIntegrate ==
  /\ Pending("_cos_pow_integrate")
  /\ PowDone(cos_pow_integrate(call.n, call.x, RecursionLimit))

CallTrigintegrateOnce ==
  /\ Pending("trigintegrate")
  /\ LET r == trigintegrate(call.expr, call.x, call.conds, cache, nextId)
     IN /\ call' = [call EXCEPT !.pc = "done", !.result = r.v, !.hit = r.hit,
                                !.pat = r.pat]
        /\ cache' = r.memo
        /\ nextId' = IF r.hit THEN nextId ELSE nextId + 1
  /\ UNCHANGED heap

InitTrig ==
  /\ \/ \E fn \in {"_sin_pow_integrate", "_cos_pow_integrate"}, n \in PowRange,
           x \in Vars : call = PowInput(fn, n, x)
     \/ \E v \in Vars, n \in PowRange, m \in PowRange, x \in Vars, conds \in Conds :
           call = TrigInput(v, n, m, x, conds)
  /\ cache = EmptyCache
  /\ nextId = 1
  /\ heap = <<>>

NextTrig ==
  \/ CallSinPowIntegrate
  \/ CallCosPowIntegrate
  \/ CallTrigintegrateOnce

SpecTrig == InitTrig /\ [][NextTrig]_vars

(***************************************************************************)
(* Claims about trigonometry.py (checked under SpecTrig)                   *)
(***************************************************************************)
\* A call of _sin_pow_integrate or _cos_pow_integrate has returned.
PowCallDone ==
  call.pc = "done" /\ call.fn \in {"_sin_pow_integrate", "_cos_pow_integrate"}

\* C14: _sin_pow_integrate(n, x) and _cos_pow_integrate(n, x) end for every
\* integer n (no RecursionError): the calls go from n by steps of 2
\* towards zero, n - 2 from an n > 1 and n + 2 from an n < -1, to a
\* recursion break at 0, 1 or -1, |n| div 2 + 1 calls in all; the break at
\* 0 returns x, the break at 1 returns -cos(x), respectively sin(x).
C14_PowIntegrateTerminates ==
  PowCallDone =>
    LET path == call.result.path IN
    /\ ~call.result.err
    /\ Len(path) = Abs(call.n) \div 2 + 1
    /\ path[1] = call.n
    /\ \A i \in 1..(Len(path) - 1) :
         \/ path[i] > 1 /\ path[i + 1] = path[i] - 2
         \/ path[i] < -1 /\ path[i + 1] = path[i] + 2
    /\ path[Len(path)] \in {0, 1, -1}
    /\ call.n = 0 => call.result.v = Term(Rational(1, 1), X)
    /\ (call.n = 1 /\ call.fn = "_sin_pow_integrate") =>
         call.result.v = Term(Rational(-1, 1), CosSin(1, 0))
    /\ (call.n = 1 /\ call.fn = "_cos_pow_integrate") =>
         call.result.v = Term(Rational(1, 1), CosSin(0, 1))

\* _sin_pow_integrate(-5, x) has gone through n = -5, -3, -1 and returned
\* -cos/(4 sin**4) - 3 cos/(8 sin**2) + 3/8 trigintegrate(1/sin(x), x).
C14_Witness ==
  /\ PowCallDone /\ call.fn = "_sin_pow_integrate" /\ call.n = -5
  /\ call.result.path = <<-5, -3, -1>>
  /\ Coef(call.result.v, CosSin(1, -4)) = Rational(-1, 4)
  /\ Coef(call.result.v, Key("fx", 0, -1)) = Rational(3, 8)

\* k! and binomial(k, i) as k! / (i! (k - i)!)
RECURSIVE Factorial(_)
Factorial(k) == IF k = 0 THEN 1 ELSE k * Factorial(k - 1)
Choose(k, i) == Factorial(k) \div (Factorial(i) * Factorial(k - i))

\* The sum for i = 0 .. upto of (-1)^i * binomial(k, i) * I(n + 2i), I
\* being _sin_pow_integrate ("sin") or _cos_pow_integrate ("cos").
PowIntegral(fam, n) ==
  IF fam = "sin" THEN sin_pow_integrate(n, call.x, RecursionLimit).v
  ELSE cos_pow_integrate(n, call.x, RecursionLimit).v
RECURSIVE BinomialSum(_, _, _, _)
BinomialSum(fam, n, k, upto) ==
  IF upto < 0 THEN {}
  ELSE AddV(BinomialSum(fam, n, k, upto - 1),
            ScaleV(Rational((IF upto % 2 = 0 THEN 1 ELSE -1) * Choose(k, upto), 1),
                   PowIntegral(fam, n + 2 * upto)))

\* trigintegrate has returned for a matched integrand with n and m even.
EvenEvenDone ==
  /\ call.pc = "done" /\ call.fn = "trigintegrate"
  /\ call.result.rule # "None"
  /\ call.result.n % 2 = 0 /\ call.result.m % 2 = 0

\* C15: for n and m even, when |n| > |m| and m > 0 trigintegrate computes
\* res as the sum for i = 0 .. m/2 of (-1)^i * binomial(m/2, i) *
\* _sin_pow_integrate(n + 2i, x); when |m| > |n| and n > 0, as the sum for
\* i = 0 .. n/2 of (-1)^i * binomial(n/2, i) * _cos_pow_integrate(m + 2i, x).
C15_EvenEvenBinomialSums ==
  EvenEvenDone =>
    LET n == call.result.n
        m == call.result.m
    IN /\ ~call.result.raised
       /\ (Abs(n) > Abs(m) /\ m > 0) =>
            call.result.res = BinomialSum("sin", n, m \div 2, m \div 2)
       /\ (Abs(m) > Abs(n) /\ n > 0) =>
            call.result.res = BinomialSum("cos", m, n \div 2, n \div 2)

\* trigintegrate(sin(x)**(-6) * cos(x)**4, x) has returned the sum of
\* _sin_pow_integrate(-6), -2 _sin_pow_integrate(-4) and
\* _sin_pow_integrate(-2): -cos/(5 sin**5) + 2 cos/(5 sin**3) - cos/(5 sin).
C15_Witness ==
  /\ EvenEvenDone
  /\ call.result.n = -6 /\ call.result.m = 4
  /\ call.result.res =
       AddV(PowIntegral("sin", -6),
            AddV(ScaleV(Rational(-2, 1), PowIntegral("sin", -4)),
                 PowIntegral("sin", -2)))
  /\ Coef(call.result.res, CosSin(1, -5)) = Rational(-1, 5)

====
